---- MODULE Spec2Model ----
(***************************************************************************)
(* Streaming chat-completion client of gpt-lamp:                           *)
(*   src/services/providers/openrouter.ts  (provider: retry loop, timeout  *)
(*                                          timer, SSE read loop)          *)
(*   src/services/api.ts                   (xaiService wrapper)            *)
(*   src/contexts/ChatContext.tsx          (handleSendMessage,             *)
(*                                          regenerateMessage, callbacks)  *)
(*   src/lib/utils.ts                      (ensureOnlineSlug, settings)    *)
(*                                                                         *)
(* Text is a sequence of one-character strings.  A JSON frame is written   *)
(* in an abbreviated syntax: {c:a} is a delta with content "a", {r:r} a    *)
(* delta with reasoning "r", {r:r,c:a} carries both, {} carries neither.   *)
(***************************************************************************)
EXTENDS Integers, Sequences, FiniteSets, TLC

\* ------------------------------------------------------------------ bounds
MaxCalls == 3          \* logical calls the chat context may start
MaxFrames == 2         \* SSE frames in one response body (protocol runs)
MaxDecFrames == 3      \* SSE frames in one response body (decoder runs)
MaxTags == 2           \* ':' tags a configured model id may carry
MaxMsgs == 2           \* messages in a conversation handed to the request builder

\* ------------------------------------------------------- program constants
MAX_RETRIES == 2
RETRY_DELAY == 1000
PrefixLen == 6

Calls == 1..MaxCalls

\* --------------------------------------------------------------- SSE text
NL == "\n"
DataPrefix == <<"d", "a", "t", "a", ":", " ">>
DoneSentinel == <<"[", "D", "O", "N", "E", "]">>
Whitespace == {" ", "\r", "\t", NL}
Letters == {"a", "b", "r"}

\* the frames a server may send, by kind
FrameText(k) ==
  CASE k = "A"       -> DataPrefix \o <<"{", "c", ":", "a", "}", NL>>
    [] k = "B"       -> DataPrefix \o <<"{", "c", ":", "b", "}", NL>>
    [] k = "R"       -> DataPrefix \o <<"{", "r", ":", "r", "}", NL>>
    [] k = "RC"      -> DataPrefix \o <<"{", "r", ":", "r", ",", "c", ":", "a", "}", NL>>
    [] k = "Empty"   -> DataPrefix \o <<"{", "c", ":", "}", NL>>
    [] k = "Bad"     -> DataPrefix \o <<"{", "c", ":", NL>>
    [] k = "Blank"   -> <<NL>>
    [] k = "Comment" -> <<":", " ", "a", NL>>
    [] k = "Done"    -> DataPrefix \o DoneSentinel \o <<NL>>
    [] k = "Partial" -> DataPrefix \o <<"{", "c", ":", "b", "}">>

RECURSIVE Flatten(_)
Flatten(ks) == IF ks = <<>> THEN <<>> ELSE FrameText(Head(ks)) \o Flatten(Tail(ks))

\* String.prototype.split('\n')
RECURSIVE SplitFrom(_, _, _)
SplitFrom(s, i, cur) ==
  IF i > Len(s) THEN <<cur>>
  ELSE IF s[i] = NL THEN <<cur>> \o SplitFrom(s, i + 1, <<>>)
  ELSE SplitFrom(s, i + 1, Append(cur, s[i]))

Split(s) == SplitFrom(s, 1, <<>>)

\* !line.trim()
IsBlank(line) == \A i \in 1..Len(line) : line[i] \in Whitespace

StartsWith(line, p) == Len(line) >= Len(p) /\ SubSeq(line, 1, Len(p)) = p

Substring(line, k) == SubSeq(line, k + 1, Len(line))

\* JSON.parse of a payload, reduced to the two fields the decoder reads;
\* ok = FALSE stands for the SyntaxError it throws
JSONParse(data) ==
  LET n == Len(data)
      fail == [ok |-> FALSE, content |-> <<>>, reasoning |-> <<>>]
      Val(i, j) == SubSeq(data, i, j)
      IsVal(v) == Len(v) <= 1 /\ \A q \in 1..Len(v) : v[q] \in Letters
  IN IF n < 2 \/ data[1] # "{" \/ data[n] # "}" THEN fail
     ELSE IF n = 2 THEN [ok |-> TRUE, content |-> <<>>, reasoning |-> <<>>]
     ELSE IF n \in {4, 5} /\ data[3] = ":" /\ data[2] = "c" /\ IsVal(Val(4, n - 1))
       THEN [ok |-> TRUE, content |-> Val(4, n - 1), reasoning |-> <<>>]
     ELSE IF n \in {4, 5} /\ data[3] = ":" /\ data[2] = "r" /\ IsVal(Val(4, n - 1))
       THEN [ok |-> TRUE, content |-> <<>>, reasoning |-> Val(4, n - 1)]
     ELSE IF n = 9 /\ SubSeq(data, 2, 3) = <<"r", ":">> /\ data[4] \in Letters
             /\ SubSeq(data, 5, 7) = <<",", "c", ":">> /\ data[8] \in Letters
       THEN [ok |-> TRUE, content |-> <<data[8]>>, reasoning |-> <<data[4]>>]
     ELSE fail

\* one callback invocation of the provider: which callback, its argument,
\* and the attempt (1-based HTTP request of the call) that made it
Ev(cb, arg, att) == [cb |-> cb, arg |-> arg, att |-> att]

\* the callbacks of one frame with the answer delivered before the reasoning
DeltaEventsChunkFirst(parsed, att) ==
  (IF parsed.content # <<>>
     THEN <<Ev("onChunk", parsed.content, att)>> ELSE <<>>)
  \o (IF parsed.reasoning # <<>>
        THEN <<Ev("onReasoningChunk", parsed.reasoning, att)>> ELSE <<>>)

\* if (reasoning && onReasoningChunk) onReasoningChunk(reasoning);
\* if (chunk) onChunk(chunk);                  openrouter.ts 180-185
DeltaEvents(parsed, att) ==
  (IF parsed.reasoning # <<>>
     THEN <<Ev("onReasoningChunk", parsed.reasoning, att)>> ELSE <<>>)
  \o (IF parsed.content # <<>>
        THEN <<Ev("onChunk", parsed.content, att)>> ELSE <<>>)

\* the line loop with a malformed payload ending the loop instead of being
\* skipped
RECURSIVE ProcessLinesStopAtBad(_, _, _)
ProcessLinesStopAtBad(lines, i, att) ==
  IF i > Len(lines) THEN [evs |-> <<>>, returned |-> FALSE]
  ELSE LET line == lines[i] IN
    IF IsBlank(line) THEN ProcessLinesStopAtBad(lines, i + 1, att)
    ELSE IF ~StartsWith(line, DataPrefix) THEN ProcessLinesStopAtBad(lines, i + 1, att)
    ELSE LET data == Substring(line, PrefixLen) IN
      IF data = DoneSentinel
        THEN [evs |-> <<Ev("onComplete", <<>>, att)>>, returned |-> TRUE]
      ELSE LET parsed == JSONParse(data)
               here == DeltaEvents(parsed, att)
               rest == ProcessLinesStopAtBad(lines, i + 1, att)
           IN IF ~parsed.ok THEN [evs |-> <<>>, returned |-> FALSE]
              ELSE [evs |-> here \o rest.evs, returned |-> rest.returned]

\* for (const line of lines) { ... }   openrouter.ts 173-186
RECURSIVE ProcessLines(_, _, _)
ProcessLines(lines, i, att) ==
  IF i > Len(lines) THEN [evs |-> <<>>, returned |-> FALSE]
  ELSE LET line == lines[i] IN
    IF IsBlank(line) THEN ProcessLines(lines, i + 1, att)
    ELSE IF ~StartsWith(line, DataPrefix) THEN ProcessLines(lines, i + 1, att)
    ELSE LET data == Substring(line, PrefixLen) IN
      IF data = DoneSentinel
        THEN [evs |-> <<Ev("onComplete", <<>>, att)>>, returned |-> TRUE]
      ELSE LET parsed == JSONParse(data)
               here == IF ~parsed.ok THEN <<>> ELSE DeltaEvents(parsed, att)
               rest == ProcessLines(lines, i + 1, att)
           IN [evs |-> here \o rest.evs, returned |-> rest.returned]

\* the chunk handler with the trailing partial line thrown away instead of
\* carried to the next chunk
ProcessValueNoCarry(buffer, value, att) ==
  LET lines == Split(buffer \o value)
      r == ProcessLines(SubSeq(lines, 1, Len(lines) - 1), 1, att)
  IN [buffer |-> <<>>, evs |-> r.evs, returned |-> r.returned]

\* if (value) { buffer += decode(value); lines = buffer.split('\n');
\*              buffer = lines.pop() || ''; for ... }
ProcessValue(buffer, value, att) ==
  LET lines == Split(buffer \o value)
      r == ProcessLines(SubSeq(lines, 1, Len(lines) - 1), 1, att)
  IN [buffer |-> lines[Len(lines)], evs |-> r.evs, returned |-> r.returned]

\* ------------------------------------------------------------ error texts
MsgTimeout == "Request timed out after 30 seconds"
MsgAuth == "Authentication failed: Invalid API key."
MsgRate == "Rate limit exceeded. Please try again later."
MsgNullBody == "Response body is null"
MsgPlugin == "This model does not support the web plugin"
MsgFetch == "Failed to fetch"
MsgAbort == "The user aborted a request."
MsgRead == "network error"
MsgKey == "API Key error: API Key appears to be invalid (too short)"
MsgStatus(status) ==
  CASE status = 400 -> "Error: 400"
    [] status = 401 -> "Error: 401"
    [] status = 429 -> "Error: 429"
    [] status = 500 -> "Error: 500"

\* error.message.includes("plugin"), over the messages of this model
IncludesPlugin(msg) == msg = MsgPlugin

\* the HTTP statuses and error bodies a server may answer with
Statuses == {400, 401, 429, 500}
ErrorBodies == {"none", "plugin"}

\* handleApiError: the message of the Error it throws
handleApiError(status, errBody) ==
  LET msg == IF errBody = "plugin" THEN MsgPlugin ELSE MsgStatus(status)
  IN IF status = 401 THEN MsgAuth
     ELSE IF status = 429 THEN MsgRate
     ELSE msg

\* entry of outcomes for an attempt whose fetch rejected
NoResponse == 0

\* the API keys a caller may hold, by what prepareApiKey makes of them:
\* "empty" is the empty string, "short" has fewer than 10 characters after
\* trimming, "valid" is any other key
Keys == {"valid", "short", "empty"}

\* prepareApiKey of api.ts: TRUE when it returns, FALSE when it throws
prepareApiKey(key) == key = "valid"

\* --------------------------------------------------------------- model ids
\* A model id is a sequence of tokens: a vendor/name token followed by tags.
OnlineTag == ":online"
Tags == {":free", OnlineTag}
DefaultModel == <<"x-ai/grok-4">>
GlmVision == <<"z-ai/glm-4.5v">>
GrokVision == <<"x-ai/grok-vision-beta">>
ModelIds ==
  {b \o t : b \in {DefaultModel, GlmVision},
            t \in UNION {[1..k -> Tags] : k \in 0..MaxTags}}

\* model.includes(tag)
Includes(model, tag) == \E i \in 1..Len(model) : model[i] = tag

\* the online-suffix function with the test for the tag left out
ensureOnlineSlugAppend(model) == Append(model, OnlineTag)

\* ensureOnlineSlug                            utils.ts 8-10
ensureOnlineSlug(model) ==
  IF Includes(model, OnlineTag) THEN model ELSE Append(model, OnlineTag)

\* getVisionModel                              ChatContext.tsx 887-894
getVisionModel(model) == IF model = GlmVision THEN GlmVision ELSE GrokVision

\* the options handleSendMessage passes to xaiService.streamResponse;
\* plugins = TRUE stands for [DEFAULT_WEB_PLUGIN], FALSE for undefined
\*                                             ChatContext.tsx 897-903, 1032-1037
Options(model, images, webSearchActive) ==
  [model |-> IF images THEN getVisionModel(model)
             ELSE IF webSearchActive THEN ensureOnlineSlug(model)
             ELSE model,
   plugins |-> webSearchActive]

\* the request body the provider serialises: a function from its field names
\* to their values (values other than the model id are not modelled)
\*                                             openrouter.ts 130-137
RequestBody(options) ==
  [f \in {"model", "messages", "temperature", "max_tokens", "stream", "usage"} |->
     IF f = "model"
       THEN (IF options.model = <<>> THEN DefaultModel ELSE options.model)
       ELSE <<f>>]

\* ------------------------------------------------------------------ state
VARIABLES
  calls,                \* per logical call: the locals of streamResponse
  streamingContentRef,  \* ChatContext: answer accumulator
  reasoningContentRef,  \* ChatContext: reasoning accumulator
  streamCompletedRef,   \* ChatContext: already-completed latch
  isProcessing,         \* ChatContext: spinner state
  messages,             \* ChatContext: final assistant messages
  toasts,               \* ChatContext: notifications shown to the user
  send,                 \* the locals of one xaiService.sendMessage / callAI call
  currentModel,         \* settings: the configured model id
  build                 \* the request builder: heap of message objects of one call

vars == <<calls, streamingContentRef, reasoningContentRef, streamCompletedRef,
          isProcessing, messages, toasts, send, currentModel, build>>

\* everything but send
chatVars == <<calls, streamingContentRef, reasoningContentRef, streamCompletedRef,
              isProcessing, messages, toasts, currentModel, build>>

\* what the streaming actions leave alone
otherVars == <<send, currentModel, build>>

IdleCall ==
  [pc |-> "idle", retries |-> 0, aborted |-> FALSE, timers |-> {},
   signalAborted |-> FALSE, reqs |-> 0, delays |-> <<>>, buffer |-> <<>>,
   script |-> <<>>, pos |-> 0, closes |-> TRUE, events |-> <<>>,
   outcomes |-> <<>>, webSearchActive |-> FALSE, images |-> FALSE,
   options |-> Options(DefaultModel, FALSE, FALSE)]

IdleBuild ==
  [pc |-> "idle", heap |-> <<>>, before |-> <<>>, input |-> 0, formatted |-> 0,
   wire |-> <<>>, attempts |-> 0, rounds |-> 0, entry |-> "none"]

IdleSend ==
  [pc |-> "idle", entry |-> "none", retries |-> 0, provRetries |-> 0,
   reqs |-> 0, delays |-> <<>>, lastError |-> "none", result |-> "none"]

Init ==
  /\ calls = [c \in Calls |-> IdleCall]
  /\ streamingContentRef = <<>>
  /\ reasoningContentRef = <<>>
  /\ streamCompletedRef = FALSE
  /\ isProcessing = FALSE
  /\ messages = <<>>
  /\ toasts = <<>>
  /\ send = IdleSend
  /\ currentModel = DefaultModel
  /\ build = IdleBuild

Body(r) == Flatten(r.script)

\* ------------------------------------------------- ChatContext callbacks
Ui ==
  [content |-> streamingContentRef, reasoning |-> reasoningContentRef,
   completed |-> streamCompletedRef, processing |-> isProcessing,
   messages |-> messages, toasts |-> toasts]

SetUi(u) ==
  /\ streamingContentRef' = u.content
  /\ reasoningContentRef' = u.reasoning
  /\ streamCompletedRef' = u.completed
  /\ isProcessing' = u.processing
  /\ messages' = u.messages
  /\ toasts' = u.toasts

Toast(title, c) == [title |-> title, call |-> c]

\* onChunk                                     ChatContext.tsx 911-940
OnChunk(u, ev) ==
  IF u.completed THEN u ELSE [u EXCEPT !.content = @ \o ev.arg]

\* onReasoningChunk                            ChatContext.tsx 941-945
OnReasoningChunk(u, ev) ==
  IF u.completed THEN u ELSE [u EXCEPT !.reasoning = @ \o ev.arg]

\* onComplete                                  ChatContext.tsx 946-994
OnComplete(u, ev, c) ==
  IF u.completed THEN u
  ELSE [u EXCEPT !.completed = TRUE,
                 !.content = <<>>,
                 !.processing = FALSE,
                 !.messages = Append(@, [content |-> u.content,
                                         reasoning |-> u.reasoning,
                                         call |-> c, att |-> ev.att])]

\* the statements of handleSendMessage before it awaits the stream
\*                                             ChatContext.tsx 852-869
SendPrelude(u) ==
  [u EXCEPT !.processing = TRUE, !.content = <<>>, !.completed = FALSE,
            !.reasoning = <<>>]

\* the resubmission test without the web-search condition
ResubmitsAlways(webSearchActive, ev) ==
  ev.cb = "onError" /\ IncludesPlugin(ev.arg[1])

\* does onError of a call resubmit without web search?   ChatContext.tsx 998
Resubmits(webSearchActive, ev) ==
  ev.cb = "onError" /\ webSearchActive /\ IncludesPlugin(ev.arg[1])

\* onError                                     ChatContext.tsx 995-1030
OnError(u, ev, c, webSearchActive) ==
  IF Resubmits(webSearchActive, ev)
    THEN SendPrelude([u EXCEPT !.toasts = Append(@, Toast("Web Search Not Available", c))])
    ELSE [u EXCEPT !.processing = FALSE, !.completed = TRUE,
                   !.toasts = Append(@, Toast("Error", c))]

RECURSIVE UiFold(_, _, _, _)
UiFold(u, evs, c, web) ==
  IF evs = <<>> THEN u
  ELSE LET ev == Head(evs)
           u1 == CASE ev.cb = "onChunk" -> OnChunk(u, ev)
                   [] ev.cb = "onReasoningChunk" -> OnReasoningChunk(u, ev)
                   [] ev.cb = "onComplete" -> OnComplete(u, ev, c)
                   [] ev.cb = "onError" -> OnError(u, ev, c, web)
       IN UiFold(u1, Tail(evs), c, web)

\* ----------------------------------------- openRouterProvider.streamResponse
\* one attempt begins: the timer is armed and the request is issued
\*                                             openrouter.ts 141-155
BeginAttempt(r) ==
  [r EXCEPT !.pc = "fetch", !.reqs = @ + 1, !.timers = @ \cup {r.reqs + 1},
            !.signalAborted = FALSE]

\* while (retries <= MAX_RETRIES && !aborted)  openrouter.ts 107
LoopHead(r) ==
  IF r.retries <= MAX_RETRIES /\ ~r.aborted THEN BeginAttempt(r)
  ELSE [r EXCEPT !.pc = "done"]

\* reader, decoder, buffer and done are locals of the try block: an attempt
\* that leaves it by an exception leaves them behind    openrouter.ts 161-164
EndAttempt(r) ==
  [r EXCEPT !.buffer = <<>>, !.script = <<>>, !.pos = 0, !.closes = TRUE]

\* the catch block with a backoff delay that does not grow
CatchFlatDelay(r, msg) ==
  IF r.aborted THEN [EndAttempt(r) EXCEPT !.pc = "done"]
  ELSE IF r.retries >= MAX_RETRIES
    THEN [EndAttempt(r) EXCEPT !.pc = "done",
                               !.events = Append(@, Ev("onError", <<msg>>, r.reqs))]
  ELSE [EndAttempt(r) EXCEPT !.retries = @ + 1,
                             !.delays = Append(@, RETRY_DELAY),
                             !.pc = "delay"]

\* catch (err) { ... }                         openrouter.ts 191-194
Catch(r, msg) ==
  IF r.aborted THEN [EndAttempt(r) EXCEPT !.pc = "done"]
  ELSE IF r.retries >= MAX_RETRIES
    THEN [EndAttempt(r) EXCEPT !.pc = "done",
                   !.events = Append(@, Ev("onError", <<msg>>, r.reqs))]
  ELSE [EndAttempt(r) EXCEPT !.retries = @ + 1,
                             !.delays = Append(@, RETRY_DELAY * (r.retries + 1)),
                             !.pc = "delay"]

\* the events r2 has and r had not
NewEvents(r, r2) == SubSeq(r2.events, Len(r.events) + 1, Len(r2.events))

\* the streaming entry point handing any key to the provider unvalidated
StreamResponseNoKeyCheck(r, key) == LoopHead(r)

\* xaiService.streamResponse: validate the key, then delegate to the provider.
\* The provider reports every failure through onError and returns, so the
\* catch block of the xaiService loop (api.ts 314-334) is not entered.
\*                                             api.ts 273-313
StreamResponse(r, key) ==
  IF ~prepareApiKey(key)
    THEN [r EXCEPT !.pc = "done", !.events = Append(@, Ev("onError", <<MsgKey>>, 0))]
    ELSE LoopHead(r)

\* the locals of a call that handleSendMessage starts with the given images
\* and web-search setting                      ChatContext.tsx 884-903
NewCall(images, webSearchActive) ==
  [IdleCall EXCEPT !.webSearchActive = webSearchActive, !.images = images,
                   !.options = Options(currentModel, images, webSearchActive)]

\* call c moves from record calls[c] to r2; the callbacks it has invoked on
\* the way run in the chat context, and a resubmission starts the next call
Deliver(c, r2) ==
  LET r == calls[c]
      evs == NewEvents(r, r2)
      resub == \E i \in 1..Len(evs) : Resubmits(r.webSearchActive, evs[i])
  IN /\ resub => c < MaxCalls
     /\ UNCHANGED otherVars
     /\ SetUi(UiFold(Ui, evs, c, r.webSearchActive))
     /\ calls' = IF resub
                   THEN [calls EXCEPT ![c] = r2,
                                      ![c + 1] = StreamResponse(
                                          NewCall(r.images, FALSE), "valid")]
                   ELSE [calls EXCEPT ![c] = r2]

\* ---------------------------------------------------------------- actions
\* the response bodies a server may send
ScriptsOf(kinds, n) == UNION {[1..k -> kinds] : k \in 0..n}
ProtoKinds == {"A", "B", "Done"}
DecKinds == {"A", "B", "R", "Bad", "Blank", "Done"}
WellKinds == {"A", "R", "RC", "Empty", "Done"}
ProtoScripts == ScriptsOf(ProtoKinds, MaxFrames)

\* the lengths a network chunk may have when a body has at most n frames
MaxFrameLen ==
  LET lens == {Len(FrameText(k)) : k \in DecKinds \cup ProtoKinds \cup WellKinds}
  IN CHOOSE n \in lens : \A m \in lens : m <= n
ChunkLens(n) == 1..(MaxFrameLen * n)

\* the offsets of a body at which a frame ends
FrameEnds(script) == {Len(Flatten(SubSeq(script, 1, j))) : j \in 1..Len(script)}

\* network chunks that end where a frame ends
WholeFrames(c) == {e - calls[c].pos : e \in FrameEnds(calls[c].script)}

\* setTimeout callbacks of one duration run in the order they were armed
OldestTimer(c, k) ==
  /\ k \in calls[c].timers
  /\ \A c2 \in Calls : \A k2 \in calls[c2].timers :
       c2 > c \/ (c2 = c /\ k2 >= k)

\* the user sends a message                    ChatContext.tsx 748-907
HandleSendMessage(images, isWebEnabled, key) ==
  /\ \A c \in Calls : calls[c].pc = "idle"
  /\ UNCHANGED otherVars
  /\ IF key = "empty"
       THEN /\ calls' = [calls EXCEPT ![1].pc = "rejected"]
            /\ toasts' = Append(toasts, Toast("API Key Missing", 1))
            /\ UNCHANGED <<streamingContentRef, reasoningContentRef,
                           streamCompletedRef, isProcessing, messages>>
       ELSE LET r0 == NewCall(images, isWebEnabled)
                r2 == StreamResponse(r0, key)
            IN /\ calls' = [calls EXCEPT ![1] = r2]
               /\ SetUi(UiFold(SendPrelude(Ui), r2.events, 1, isWebEnabled))

\* the timer of attempt k fires                openrouter.ts 142
TimerFire(c, k) ==
  /\ OldestTimer(c, k)
  /\ LET r == calls[c]
     IN Deliver(c, [r EXCEPT !.timers = @ \ {k},
                             !.aborted = TRUE,
                             !.signalAborted = @ \/ (r.pc = "fetch" /\ k = r.reqs),
                             !.events = Append(@, Ev("onError", <<MsgTimeout>>, k))])

\* the fetch of a streaming attempt rejects and the catch block issues the
\* next request without awaiting the backoff delay
FetchRejectNoDelay(c) ==
  /\ calls[c].pc = "fetch"
  /\ LET r == calls[c]
         msg == IF r.signalAborted THEN MsgAbort ELSE MsgFetch
         r1 == Catch([r EXCEPT !.outcomes = Append(@, NoResponse)], msg)
     IN Deliver(c, IF r1.pc = "delay" THEN LoopHead(r1) ELSE r1)

\* fetch rejects: the network failed, or the signal was aborted
FetchReject(c) ==
  /\ calls[c].pc = "fetch"
  /\ LET r == calls[c]
         msg == IF r.signalAborted THEN MsgAbort ELSE MsgFetch
     IN Deliver(c, Catch([r EXCEPT !.outcomes = Append(@, NoResponse)], msg))

\* fetch resolves with an error status         openrouter.ts 156-158
FetchResolveError(c, status, errBody) ==
  /\ calls[c].pc = "fetch"
  /\ ~calls[c].signalAborted
  /\ LET r == calls[c]
         r1 == [r EXCEPT !.timers = @ \ {r.reqs}, !.outcomes = Append(@, status)]
     IN Deliver(c, IF r.aborted THEN [r1 EXCEPT !.pc = "done"]
                   ELSE Catch(r1, handleApiError(status, errBody)))

\* fetch resolves with 2xx                     openrouter.ts 156-164
FetchResolveOk(c, script, closes, hasBody) ==
  /\ calls[c].pc = "fetch"
  /\ ~calls[c].signalAborted
  /\ LET r == calls[c]
         r1 == [r EXCEPT !.timers = @ \ {r.reqs}, !.outcomes = Append(@, 200)]
     IN Deliver(c, IF r.aborted THEN [r1 EXCEPT !.pc = "done"]
                   ELSE IF ~hasBody THEN Catch(r1, MsgNullBody)
                   ELSE [r1 EXCEPT !.pc = "read", !.buffer = <<>>,
                                   !.script = script, !.pos = 0,
                                   !.closes = closes])

\* the read loop going on after the line loop has met [DONE]
ReadChunkNoReturn(c, n, aligned) ==
  /\ calls[c].pc = "read"
  /\ n >= 1
  /\ calls[c].pos + n <= Len(Body(calls[c]))
  /\ aligned => n \in WholeFrames(c)
  /\ LET r == calls[c]
         value == SubSeq(Body(r), r.pos + 1, r.pos + n)
         d == ProcessValue(r.buffer, value, r.reqs)
         r1 == [r EXCEPT !.pos = @ + n, !.buffer = d.buffer,
                         !.events = @ \o d.evs]
     IN Deliver(c, IF r.aborted
                     THEN [r1 EXCEPT !.pc = "done",
                                     !.events = Append(@, Ev("onComplete", <<>>, r.reqs))]
                   ELSE r1)

\* reader.read() resolves with the next n characters of the body
\*                                             openrouter.ts 166-190
ReadChunk(c, n, aligned) ==
  /\ calls[c].pc = "read"
  /\ n >= 1
  /\ calls[c].pos + n <= Len(Body(calls[c]))
  /\ aligned => n \in WholeFrames(c)
  /\ LET r == calls[c]
         value == SubSeq(Body(r), r.pos + 1, r.pos + n)
         d == ProcessValue(r.buffer, value, r.reqs)
         r1 == [r EXCEPT !.pos = @ + n, !.buffer = d.buffer,
                         !.events = @ \o d.evs]
     IN Deliver(c, IF d.returned THEN [r1 EXCEPT !.pc = "done"]
                   ELSE IF r.aborted
                     THEN [r1 EXCEPT !.pc = "done",
                                     !.events = Append(@, Ev("onComplete", <<>>, r.reqs))]
                   ELSE r1)

\* the end of a body that has not carried [DONE] treated as a failure of the
\* attempt
ReadDoneAsError(c) ==
  /\ calls[c].pc = "read"
  /\ calls[c].pos = Len(Body(calls[c]))
  /\ calls[c].closes
  /\ Deliver(c, Catch(calls[c], MsgRead))

\* reader.read() resolves with done = true     openrouter.ts 167-168, 189
ReadDone(c) ==
  /\ calls[c].pc = "read"
  /\ calls[c].pos = Len(Body(calls[c]))
  /\ calls[c].closes
  /\ LET r == calls[c]
     IN Deliver(c, [r EXCEPT !.pc = "done",
                             !.events = Append(@, Ev("onComplete", <<>>, r.reqs))])

\* reader.read() rejects                       openrouter.ts 167, 191
ReadReject(c) ==
  /\ calls[c].pc = "read"
  /\ LET r == calls[c]
     IN Deliver(c, Catch(r, MsgRead))

\* await delay(RETRY_DELAY * retries) resolves   openrouter.ts 193, 107
DelayElapsed(c) ==
  /\ calls[c].pc = "delay"
  /\ Deliver(c, LoopHead(calls[c]))

Next ==
  \/ \E key \in Keys : HandleSendMessage(FALSE, FALSE, key)
  \/ \E c \in Calls : \E k \in 1..(MAX_RETRIES + 1) : TimerFire(c, k)
  \/ \E c \in Calls : FetchReject(c)
  \/ \E c \in Calls : \E st \in Statuses, b \in ErrorBodies : FetchResolveError(c, st, b)
  \/ \E c \in Calls : \E sc \in ProtoScripts, cl \in BOOLEAN, hb \in BOOLEAN :
       FetchResolveOk(c, sc, cl, hb)
  \/ \E c \in Calls : \E n \in ChunkLens(MaxFrames) : ReadChunk(c, n, TRUE)
  \/ \E c \in Calls : ReadDone(c)
  \/ \E c \in Calls : ReadReject(c)
  \/ \E c \in Calls : DelayElapsed(c)

Spec == Init /\ [][Next]_vars

\* armed timers fire, backoff delays elapse, a fetch whose signal was aborted
\* rejects, and a server that has bytes to send or a body to close does so
Fairness ==
  \A c \in Calls :
    /\ \A k \in 1..(MAX_RETRIES + 1) : WF_vars(TimerFire(c, k))
    /\ WF_vars(DelayElapsed(c))
    /\ WF_vars(calls[c].signalAborted /\ FetchReject(c))
    /\ WF_vars(\E n \in ChunkLens(MaxFrames) : ReadChunk(c, n, TRUE))
    /\ WF_vars(ReadDone(c))

FairSpec == Init /\ [][Next]_vars /\ Fairness

\* the chat context with web search on or off, against a server with a small
\* repertoire: one error status, with or without the plugin message, and one
\* body
ChatStatuses == {400}
ChatScripts == {<<"A">>}

ChatNext ==
  \/ \E w \in BOOLEAN : HandleSendMessage(FALSE, w, "valid")
  \/ \E c \in Calls : \E k \in 1..(MAX_RETRIES + 1) : TimerFire(c, k)
  \/ \E c \in Calls : FetchReject(c)
  \/ \E c \in Calls : \E st \in ChatStatuses, b \in ErrorBodies : FetchResolveError(c, st, b)
  \/ \E c \in Calls : \E sc \in ChatScripts : FetchResolveOk(c, sc, TRUE, TRUE)
  \/ \E c \in Calls : \E n \in ChunkLens(1) : ReadChunk(c, n, TRUE)
  \/ \E c \in Calls : ReadDone(c)
  \/ \E c \in Calls : ReadReject(c)
  \/ \E c \in Calls : DelayElapsed(c)

ChatSpec == Init /\ [][ChatNext]_vars

\* one attempt against a server that answers at once and sends its body in
\* network chunks of any length
DecScripts == ScriptsOf(DecKinds, MaxDecFrames)

DecoderNext ==
  \/ HandleSendMessage(FALSE, FALSE, "valid")
  \/ \E c \in Calls : \E sc \in DecScripts : FetchResolveOk(c, sc, TRUE, TRUE)
  \/ \E c \in Calls : \E n \in ChunkLens(MaxDecFrames) : ReadChunk(c, n, FALSE)
  \/ \E c \in Calls : ReadDone(c)

DecoderSpec == Init /\ [][DecoderNext]_vars

\* one attempt against a server that sends well-formed frames only, some
\* with reasoning, some with both fields, some with empty content
WellScripts == ScriptsOf(WellKinds, MaxDecFrames)

FrameNext ==
  \/ HandleSendMessage(FALSE, FALSE, "valid")
  \/ \E c \in Calls : \E sc \in WellScripts : FetchResolveOk(c, sc, TRUE, TRUE)
  \/ \E c \in Calls : \E n \in ChunkLens(MaxDecFrames) : ReadChunk(c, n, FALSE)
  \/ \E c \in Calls : ReadDone(c)

FrameSpec == Init /\ [][FrameNext]_vars

\* ------------------------------------------------- web search and vision
\* the configured model id is read from localStorage or chosen in the model
\* select, which is disabled while a call is processed
\*                                  utils.ts 80, ChatInput.tsx 573-588
SetCurrentModel(m) ==
  /\ \A c \in Calls : calls[c].pc = "idle"
  /\ m # currentModel
  /\ currentModel' = m
  /\ UNCHANGED <<calls, streamingContentRef, reasoningContentRef, streamCompletedRef,
                 isProcessing, messages, toasts, send, build>>

\* the chat context with any configured model id, with or without images and
\* web search, against a server that answers 400, with or without the plugin
\* message, or sends one body
WebNext ==
  \/ \E m \in ModelIds : SetCurrentModel(m)
  \/ \E i \in BOOLEAN, w \in BOOLEAN : HandleSendMessage(i, w, "valid")
  \/ \E c \in Calls : \E st \in ChatStatuses, b \in ErrorBodies : FetchResolveError(c, st, b)
  \/ \E c \in Calls : \E sc \in ChatScripts : FetchResolveOk(c, sc, TRUE, TRUE)
  \/ \E c \in Calls : \E n \in ChunkLens(1) : ReadChunk(c, n, TRUE)
  \/ \E c \in Calls : ReadDone(c)
  \/ \E c \in Calls : DelayElapsed(c)

WebSpec == Init /\ [][WebNext]_vars

\* ------------------------------------------------------ overlapping calls
\* the fallback timer of the chat context: one minute after isProcessing has
\* become true it is set back to false, whether or not a stream is running.
\* The 30-second timer of a request issued no later than isProcessing was set
\* runs before it.                             ChatContext.tsx 203-224
FallbackTimer ==
  /\ isProcessing
  /\ \A c \in Calls : calls[c].timers = {}
  /\ isProcessing' = FALSE
  /\ UNCHANGED <<calls, streamingContentRef, reasoningContentRef,
                 streamCompletedRef, messages, toasts, send, currentModel, build>>

\* a further logical call c enters xaiService.streamResponse after the chat
\* context has run the statements u of its handler
StartCall(c, u) ==
  /\ c > 1
  /\ calls[c].pc = "idle"
  /\ calls[c - 1].pc # "idle"
  /\ calls' = [calls EXCEPT ![c] = StreamResponse(NewCall(FALSE, FALSE), "valid")]
  /\ SetUi(u)
  /\ UNCHANGED otherVars

\* the input box submits another message: handleSubmit returns when
\* isProcessing is set, handleSendMessage itself has no such test
\*                          ChatInput.tsx 51, ChatContext.tsx 748-907
HandleSubmit(c) ==
  /\ ~isProcessing
  /\ StartCall(c, SendPrelude(Ui))

\* the statements of regenerateMessage before it awaits the stream: the
\* assistant message i and all after it are removed; reasoningContentRef is
\* left as it is                               ChatContext.tsx 1093-1146
RegeneratePrelude(u, i) ==
  [u EXCEPT !.messages = SubSeq(@, 1, i - 1), !.processing = TRUE,
            !.content = <<>>, !.completed = FALSE]

\* the user regenerates assistant message i    ChatContext.tsx 1092-1229
RegenerateMessage(c, i) ==
  /\ ~isProcessing
  /\ i \in 1..Len(messages)
  /\ StartCall(c, RegeneratePrelude(Ui, i))

\* the server answers call c with answer frames of one letter: "a" for calls
\* with an odd number, "b" for the others; the body ends without [DONE]
StreamOf(c) == [j \in 1..MaxFrames |-> IF c % 2 = 1 THEN "A" ELSE "B"]

OverlapNext ==
  \/ HandleSendMessage(FALSE, FALSE, "valid")
  \/ FallbackTimer
  \/ \E c \in Calls : HandleSubmit(c)
  \/ \E c \in Calls : \E i \in 1..MaxCalls : RegenerateMessage(c, i)
  \/ \E c \in Calls : FetchResolveOk(c, StreamOf(c), TRUE, TRUE)
  \/ \E c \in Calls : \E n \in ChunkLens(MaxFrames) : ReadChunk(c, n, TRUE)
  \/ \E c \in Calls : ReadDone(c)

OverlapSpec == Init /\ [][OverlapNext]_vars

\* ------------------------------------------------- regenerated answers
\* calls of the chat context one after the other, each a new message or the
\* regeneration of an answer, against a server that streams reasoning and
\* answer frames
RegenScripts == ScriptsOf({"R", "A"}, MaxFrames)

RegenNext ==
  \/ HandleSendMessage(FALSE, FALSE, "valid")
  \/ \E c \in Calls : HandleSubmit(c)
  \/ \E c \in Calls : \E i \in 1..MaxCalls : RegenerateMessage(c, i)
  \/ \E c \in Calls : \E sc \in RegenScripts : FetchResolveOk(c, sc, TRUE, TRUE)
  \/ \E c \in Calls : \E n \in ChunkLens(MaxFrames) : ReadChunk(c, n, TRUE)
  \/ \E c \in Calls : ReadDone(c)

RegenSpec == Init /\ [][RegenNext]_vars

TypeOK ==
  /\ \A c \in Calls : calls[c].pc \in {"idle", "rejected", "fetch", "read", "delay", "done"}
  /\ streamCompletedRef \in BOOLEAN

\* --------------------------------------------------------------- sendMessage
MsgFailed == "Failed to get response from OpenRouter API"
MsgJson == "Unexpected token in JSON"
MsgChoices == "Cannot read properties of undefined"
MsgFriendly == "I'm sorry, I encountered an error while processing your request."

\* the bodies a 2xx answer to a buffered request may carry
SendBodies == {"answer", "badjson", "nochoices"}

\* openRouterProvider.sendMessage is entered: its loop issues a request
\*                                             openrouter.ts 43-92
ProviderSend(s) ==
  [s EXCEPT !.pc = "fetch", !.provRetries = 0, !.lastError = "none", !.reqs = @ + 1]

\* a call ends by throwing: callAI turns the error into a friendly answer
\*                                             api.ts 382-403
SendThrow(s, msg) ==
  IF s.entry = "callAI"
    THEN [s EXCEPT !.pc = "resolved", !.result = MsgFriendly]
    ELSE [s EXCEPT !.pc = "rejected", !.result = msg]

\* catch of xaiService.sendMessage             api.ts 237-252
SendCatch(s) ==
  IF s.retries >= MAX_RETRIES THEN SendThrow(s, MsgFailed)
  ELSE [s EXCEPT !.retries = @ + 1,
                 !.delays = Append(@, RETRY_DELAY * (s.retries + 1)),
                 !.pc = "delay"]

\* the catch block of the buffered provider loop with a backoff delay that
\* does not grow
ProviderSendCatchFlat(s, msg) ==
  IF s.provRetries + 1 > MAX_RETRIES
    THEN SendCatch([s EXCEPT !.lastError = msg, !.provRetries = @ + 1])
    ELSE [s EXCEPT !.lastError = msg, !.provRetries = @ + 1,
                   !.delays = Append(@, RETRY_DELAY),
                   !.pc = "provDelay"]

\* catch of openRouterProvider.sendMessage     openrouter.ts 96-100
ProviderSendCatch(s, msg) ==
  IF s.provRetries + 1 > MAX_RETRIES
    THEN SendCatch([s EXCEPT !.lastError = msg, !.provRetries = @ + 1])
    ELSE [s EXCEPT !.lastError = msg, !.provRetries = @ + 1,
                   !.delays = Append(@, RETRY_DELAY * (s.provRetries + 1)),
                   !.pc = "provDelay"]

\* xaiService.sendMessage or xaiService.callAI is called
\*                                             api.ts 203-236, 341-384
SendMessage(entry, key) ==
  /\ send.pc = "idle"
  /\ LET s == [IdleSend EXCEPT !.entry = entry]
     IN send' = IF entry = "callAI" /\ key = "empty"
                  THEN [s EXCEPT !.pc = "rejected", !.result = "API Key is required"]
                ELSE IF ~prepareApiKey(key) THEN SendThrow(s, MsgKey)
                ELSE ProviderSend(s)
  /\ UNCHANGED chatVars

\* fetch rejects                               openrouter.ts 82, 96
SendFetchReject ==
  /\ send.pc = "fetch"
  /\ send' = ProviderSendCatch(send, MsgFetch)
  /\ UNCHANGED chatVars

\* fetch resolves with an error status         openrouter.ts 93
SendFetchError(status, errBody) ==
  /\ send.pc = "fetch"
  /\ send' = ProviderSendCatch(send, handleApiError(status, errBody))
  /\ UNCHANGED chatVars

\* fetch resolves with 2xx and the body is read   openrouter.ts 94-95
SendFetchOk(body) ==
  /\ send.pc = "fetch"
  /\ send' = IF body = "answer" THEN [send EXCEPT !.pc = "resolved", !.result = "answer"]
             ELSE IF body = "badjson" THEN ProviderSendCatch(send, MsgJson)
             ELSE ProviderSendCatch(send, MsgChoices)
  /\ UNCHANGED chatVars

\* the backoff delay of the provider loop elapses   openrouter.ts 97, 46
ProviderDelayElapsed ==
  /\ send.pc = "provDelay"
  /\ send' = [send EXCEPT !.pc = "fetch", !.reqs = @ + 1]
  /\ UNCHANGED chatVars

\* the backoff delay of the xaiService loop elapses   api.ts 251, 221-236
SendDelayElapsed ==
  /\ send.pc = "delay"
  /\ send' = ProviderSend(send)
  /\ UNCHANGED chatVars

SendNext ==
  \/ \E e \in {"sendMessage", "callAI"}, key \in Keys : SendMessage(e, key)
  \/ SendFetchReject
  \/ \E st \in Statuses, b \in ErrorBodies : SendFetchError(st, b)
  \/ \E b \in SendBodies : SendFetchOk(b)
  \/ ProviderDelayElapsed
  \/ SendDelayElapsed

SendSpec == Init /\ [][SendNext]_vars

\* ------------------------------------------------- the service entry points
\* a caller other than handleSendMessage calls xaiService.streamResponse with
\* callbacks of its own (regenerateMessage, for one, does not test the key
\* before it calls)                             api.ts 262-283
CallStreamResponse(key) ==
  /\ \A c \in Calls : calls[c].pc = "idle"
  /\ send.pc = "idle"
  /\ calls' = [calls EXCEPT ![1] = StreamResponse(IdleCall, key)]
  /\ UNCHANGED <<streamingContentRef, reasoningContentRef, streamCompletedRef,
                 isProcessing, messages, toasts, send, currentModel, build>>

\* the chat context streams while no buffered call is under way
ChatStream(key) ==
  /\ send.pc = "idle"
  /\ HandleSendMessage(FALSE, FALSE, key)

\* a buffered call is made while no streaming call is under way
ServiceSend(entry, key) ==
  /\ \A c \in Calls : calls[c].pc = "idle"
  /\ SendMessage(entry, key)

\* one call at a time through either entry point of xaiService, streaming or
\* buffered, with any key, against a server that may do anything
ServiceNext ==
  \/ \E key \in Keys : ChatStream(key)
  \/ \E key \in Keys \ {"valid"} : CallStreamResponse(key)
  \/ \E c \in Calls : \E k \in 1..(MAX_RETRIES + 1) : TimerFire(c, k)
  \/ \E c \in Calls : FetchReject(c)
  \/ \E c \in Calls : \E st \in Statuses, b \in ErrorBodies : FetchResolveError(c, st, b)
  \/ \E c \in Calls : \E sc \in ProtoScripts, cl \in BOOLEAN, hb \in BOOLEAN :
       FetchResolveOk(c, sc, cl, hb)
  \/ \E c \in Calls : \E n \in ChunkLens(MaxFrames) : ReadChunk(c, n, TRUE)
  \/ \E c \in Calls : ReadDone(c)
  \/ \E c \in Calls : ReadReject(c)
  \/ \E c \in Calls : DelayElapsed(c)
  \/ \E e \in {"sendMessage", "callAI"}, key \in Keys : ServiceSend(e, key)
  \/ SendFetchReject
  \/ \E st \in Statuses, b \in ErrorBodies : SendFetchError(st, b)
  \/ \E b \in SendBodies : SendFetchOk(b)
  \/ ProviderDelayElapsed
  \/ SendDelayElapsed

ServiceSpec == Init /\ [][ServiceNext]_vars

\* --------------------------------------------------------- request builder
\* A string is a sequence of tokens: "t" a short text, "L" a block of 4000
\* characters, "MD" the markdown formatting instructions, "sys" the generic
\* assistant sentence, "persona", "default" and "files" the texts the chat
\* context writes, "note" its remark about images left out.
CACHE_THRESHOLD == 4000

TokenLen(t) ==
  CASE t = "L" -> 4000
    [] t = "MD" -> 231
    [] t = "sys" -> 84
    [] t = " " -> 1
    [] t = NL -> 1
    [] OTHER -> 10

\* string.length
RECURSIVE StrLen(_)
StrLen(str) == IF str = <<>> THEN 0 ELSE TokenLen(Head(str)) + StrLen(Tail(str))

FormattingText == <<"MD">>
GenericSystem == <<"sys", " ">> \o FormattingText

\* JavaScript objects live on a heap, a sequence of objects addressed by
\* their index: arrays (items), messages (role; content is the string str
\* when ref = 0 and the array object ref otherwise) and content parts
ArrObj(items) ==
  [kind |-> "array", items |-> items, role |-> "", str |-> <<>>, ref |-> 0,
   type |-> "", cache |-> FALSE]
MsgObj(role, str, ref) ==
  [kind |-> "message", items |-> <<>>, role |-> role, str |-> str, ref |-> ref,
   type |-> "", cache |-> FALSE]
PartObj(type, str, cache) ==
  [kind |-> "part", items |-> <<>>, role |-> "", str |-> str, ref |-> 0,
   type |-> type, cache |-> cache]

\* the values a caller may build its conversation from
PartVal(type, str) == [type |-> type, str |-> str, cache |-> FALSE]
StrMsg(role, str) == [role |-> role, isArr |-> FALSE, str |-> str, parts |-> <<>>]
ArrMsg(role, parts) == [role |-> role, isArr |-> TRUE, str |-> <<>>, parts |-> parts]
Roles == {"system", "user", "assistant"}
LongText == <<"L", "t">>
MsgValues ==
  UNION {{StrMsg(r, <<"t">>), StrMsg(r, LongText), StrMsg(r, <<"t", " ">> \o FormattingText),
          ArrMsg(r, <<PartVal("text", LongText), PartVal("text", LongText),
                      PartVal("image_url", <<>>)>>)} : r \in Roles}
    \cup {StrMsg("user", <<"L">>), StrMsg("system", <<"L">>),
          ArrMsg("user", <<PartVal("text", LongText), PartVal("text", <<"t">>),
                           PartVal("image_url", <<>>)>>),
          ArrMsg("user", <<PartVal("text", <<"L">>), PartVal("text", <<"t">>)>>)}
Conversations == UNION {[1..k -> MsgValues] : k \in 0..MaxMsgs}

\* the caller creates its objects
RECURSIVE AllocParts(_, _)
AllocParts(h, pv) ==
  IF pv = <<>> THEN [heap |-> h, ids |-> <<>>]
  ELSE LET h1 == Append(h, PartObj(Head(pv).type, Head(pv).str, Head(pv).cache))
           rest == AllocParts(h1, Tail(pv))
       IN [heap |-> rest.heap, ids |-> <<Len(h1)>> \o rest.ids]

AllocMsg(h, v) ==
  IF v.isArr
    THEN LET p == AllocParts(h, v.parts)
             h1 == Append(p.heap, ArrObj(p.ids))
             h2 == Append(h1, MsgObj(v.role, <<>>, Len(h1)))
         IN [heap |-> h2, id |-> Len(h2)]
    ELSE LET h1 == Append(h, MsgObj(v.role, v.str, 0))
         IN [heap |-> h1, id |-> Len(h1)]

RECURSIVE AllocMsgs(_, _)
AllocMsgs(h, vals) ==
  IF vals = <<>> THEN [heap |-> h, ids |-> <<>>]
  ELSE LET m == AllocMsg(h, Head(vals))
           rest == AllocMsgs(m.heap, Tail(vals))
       IN [heap |-> rest.heap, ids |-> <<m.id>> \o rest.ids]

AllocArray(h, vals) ==
  LET m == AllocMsgs(h, vals)
      h1 == Append(m.heap, ArrObj(m.ids))
  IN [heap |-> h1, id |-> Len(h1)]

\* JSON.stringify of the messages array arr: the value put on the wire
PartValueOf(h, p) == [type |-> h[p].type, str |-> h[p].str, cache |-> h[p].cache]
MsgValueOf(h, m) ==
  LET o == h[m]
  IN [role |-> o.role, isArr |-> o.ref > 0, str |-> o.str,
      parts |-> IF o.ref > 0
                  THEN [j \in 1..Len(h[o.ref].items) |-> PartValueOf(h, h[o.ref].items[j])]
                  ELSE <<>>]
Stringify(h, arr) == [i \in 1..Len(h[arr].items) |-> MsgValueOf(h, h[arr].items[i])]

\* ids.map(o => ({ ...o })): shallow copies
RECURSIVE CopyObjs(_, _)
CopyObjs(h, ids) ==
  IF ids = <<>> THEN [heap |-> h, ids |-> <<>>]
  ELSE LET h1 == Append(h, h[Head(ids)])
           rest == CopyObjs(h1, Tail(ids))
       IN [heap |-> rest.heap, ids |-> <<Len(h1)>> \o rest.ids]

\* findIndex(msg => msg.role === "system"), 1-based, 0 when there is none
FirstSystem(h, ids) ==
  LET S == {i \in 1..Len(ids) : h[ids[i]].role = "system"}
  IN IF S = {} THEN 0 ELSE CHOOSE i \in S : \A j \in S : i <= j

\* the builder adding its system message whether or not the conversation
\* has one
addMarkdownAlwaysUnshift(h, msgs) ==
  LET c == CopyObjs(h, h[msgs].items)
      h1 == Append(c.heap, MsgObj("system", GenericSystem, 0))
      h2 == Append(h1, ArrObj(<<Len(h1)>> \o c.ids))
  IN [heap |-> h2, id |-> Len(h2)]

\* addMarkdownFormattingInstructions             api.ts 29-56
addMarkdownFormattingInstructions(h, msgs) ==
  LET c == CopyObjs(h, h[msgs].items)
      idx == FirstSystem(c.heap, c.ids)
  IN IF idx = 0
       THEN LET h1 == Append(c.heap, MsgObj("system", GenericSystem, 0))
                h2 == Append(h1, ArrObj(<<Len(h1)>> \o c.ids))
            IN [heap |-> h2, id |-> Len(h2)]
       ELSE LET t == c.ids[idx]
                o == c.heap[t]
                h1 == IF o.ref = 0 /\ ~Includes(o.str, "MD")
                        THEN [c.heap EXCEPT ![t].str = o.str \o <<" ">> \o FormattingText]
                        ELSE c.heap
                h2 == Append(h1, ArrObj(c.ids))
            IN [heap |-> h2, id |-> Len(h2)]

\* the scan for a text part longer than the threshold run from the front
FirstLongText(h, ids) ==
  LET S == {i \in 1..Len(ids) :
              h[ids[i]].type = "text" /\ StrLen(h[ids[i]].str) > CACHE_THRESHOLD}
  IN IF S = {} THEN 0 ELSE CHOOSE i \in S : \A j \in S : i <= j

\* the last text part longer than the threshold, 0 when there is none
\*                                             openrouter.ts 112-118
LastLongText(h, ids) ==
  LET S == {i \in 1..Len(ids) :
              h[ids[i]].type = "text" /\ StrLen(h[ids[i]].str) > CACHE_THRESHOLD}
  IN IF S = {} THEN 0 ELSE CHOOSE i \in S : \A j \in S : j <= i

\* the cache marker written into the part object of the message handed in
CacheOneInPlace(h, m) ==
  LET o == h[m]
  IN IF o.ref > 0
       THEN LET ids == h[o.ref].items
                k == LastLongText(h, ids)
            IN [heap |-> IF k = 0 THEN h ELSE [h EXCEPT ![ids[k]].cache = TRUE],
                id |-> m]
     ELSE IF StrLen(o.str) > CACHE_THRESHOLD
       THEN LET h1 == Append(h, PartObj("text", o.str, TRUE))
                h2 == Append(h1, ArrObj(<<Len(h1)>>))
                h3 == Append(h2, [o EXCEPT !.str = <<>>, !.ref = Len(h2)])
            IN [heap |-> h3, id |-> Len(h3)]
     ELSE [heap |-> h, id |-> m]

\* the function mapped over the messages        openrouter.ts 109-128
CacheOne(h, m) ==
  LET o == h[m]
  IN IF o.ref > 0
       THEN LET c == CopyObjs(h, h[o.ref].items)
                k == LastLongText(c.heap, c.ids)
                h1 == IF k = 0 THEN c.heap ELSE [c.heap EXCEPT ![c.ids[k]].cache = TRUE]
                h2 == Append(h1, ArrObj(c.ids))
                h3 == Append(h2, [o EXCEPT !.ref = Len(h2)])
            IN [heap |-> h3, id |-> Len(h3)]
     ELSE IF StrLen(o.str) > CACHE_THRESHOLD
       THEN LET h1 == Append(h, PartObj("text", o.str, TRUE))
                h2 == Append(h1, ArrObj(<<Len(h1)>>))
                h3 == Append(h2, [o EXCEPT !.str = <<>>, !.ref = Len(h2)])
            IN [heap |-> h3, id |-> Len(h3)]
     ELSE [heap |-> h, id |-> m]

RECURSIVE CacheAll(_, _)
CacheAll(h, ids) ==
  IF ids = <<>> THEN [heap |-> h, ids |-> <<>>]
  ELSE LET m == CacheOne(h, Head(ids))
           rest == CacheAll(m.heap, Tail(ids))
       IN [heap |-> rest.heap, ids |-> <<m.id>> \o rest.ids]

\* const cachedMessages = messages.map(...)     openrouter.ts 109-128
cachedMessages(h, msgs) ==
  LET c == CacheAll(h, h[msgs].items)
      h1 == Append(c.heap, ArrObj(c.ids))
  IN [heap |-> h1, id |-> Len(h1)]

\* the text parts of a content array joined by newlines, with the remark
\* about images when there are any             ChatContext.tsx 713-725
RECURSIVE JoinText(_, _)
JoinText(h, ids) ==
  IF ids = <<>> THEN <<>>
  ELSE LET rest == JoinText(h, Tail(ids))
       IN IF h[Head(ids)].type # "text" THEN rest
          ELSE IF rest = <<>> THEN h[Head(ids)].str
          ELSE h[Head(ids)].str \o <<NL>> \o rest

HasImages(h, ids) == \E i \in 1..Len(ids) : h[ids[i]].type = "image_url"

\* currentMessageList.forEach(...)              ChatContext.tsx 709-734
RECURSIVE PushHistory(_, _, _)
PushHistory(h, ids, vision) ==
  IF ids = <<>> THEN [heap |-> h, ids |-> <<>>]
  ELSE LET o == h[Head(ids)]
           parts == h[o.ref].items
           new == IF ~vision /\ o.ref > 0
                    THEN MsgObj(o.role,
                                JoinText(h, parts)
                                  \o (IF HasImages(h, parts) THEN <<NL, "note">> ELSE <<>>),
                                0)
                    ELSE MsgObj(o.role, o.str, o.ref)
       IN IF o.role = "system" THEN PushHistory(h, Tail(ids), vision)
          ELSE LET h1 == Append(h, new)
                   rest == PushHistory(h1, Tail(ids), vision)
               IN [heap |-> rest.heap, ids |-> <<Len(h1)>> \o rest.ids]

\* prepareApiMessages                           ChatContext.tsx 625-745
prepareApiMessages(h, history, user, persona, files, vision) ==
  LET items == h[history].items
      hasSystem == FirstSystem(h, items) # 0
      h1 == IF hasSystem THEN h
            ELSE Append(h, MsgObj("system",
                                  IF persona THEN <<"persona">> ELSE <<"default">>, 0))
      ids1 == IF hasSystem THEN <<>> ELSE <<Len(h1)>>
      h2 == IF files THEN Append(h1, MsgObj("system", <<"files">>, 0)) ELSE h1
      ids2 == IF files THEN <<Len(h2)>> ELSE <<>>
      hist == PushHistory(h2, items, vision)
      h3 == Append(hist.heap, MsgObj("user", h[user].str, h[user].ref))
      h4 == Append(h3, ArrObj(ids1 \o ids2 \o hist.ids \o <<Len(h3)>>))
  IN [heap |-> h4, id |-> Len(h4)]

\* the messages the chat context may hold: texts, messages with an image,
\* and the system message of a chat saved by an earlier version
HistoryValues ==
  {StrMsg(r, <<"t">>) : r \in Roles}
    \cup {ArrMsg("user", <<PartVal("text", <<"t">>), PartVal("image_url", <<>>)>>)}
Histories == UNION {[1..k -> HistoryValues] : k \in 0..MaxMsgs}

\* the new user message: a content array when images are attached
\*                                             ChatContext.tsx 779-796
UserMessage(vision) ==
  IF vision THEN ArrMsg("user", <<PartVal("text", <<"t">>), PartVal("image_url", <<>>)>>)
  ELSE StrMsg("user", <<"t">>)

\* a caller hands the conversation conv to xaiService.streamResponse or
\* xaiService.sendMessage                       api.ts 203-207, 262-267
CallService(entry, conv) ==
  /\ build.pc = "idle"
  /\ LET a == AllocArray(<<>>, conv)
     IN build' = [IdleBuild EXCEPT !.pc = "format", !.heap = a.heap, !.before = a.heap,
                                   !.input = a.id, !.entry = entry]
  /\ UNCHANGED <<calls, streamingContentRef, reasoningContentRef, streamCompletedRef,
                 isProcessing, messages, toasts, send, currentModel>>

\* handleSendMessage builds its request from the chat history and hands it
\* to xaiService.streamResponse                 ChatContext.tsx 871-873, 907-909
ChatUiCall(history, persona, files, vision) ==
  /\ build.pc = "idle"
  /\ LET a == AllocArray(<<>>, history)
         u == AllocMsg(a.heap, UserMessage(vision))
         r == prepareApiMessages(u.heap, a.id, u.id, persona, files, vision)
     IN build' = [IdleBuild EXCEPT !.pc = "format", !.heap = r.heap, !.before = r.heap,
                                   !.input = r.id, !.entry = "chat"]
  /\ UNCHANGED <<calls, streamingContentRef, reasoningContentRef, streamCompletedRef,
                 isProcessing, messages, toasts, send, currentModel>>

\* one round of the xaiService loop formats the conversation
\*                                             api.ts 224, 291
Format ==
  /\ build.pc = "format"
  /\ LET r == addMarkdownFormattingInstructions(build.heap, build.input)
     IN build' = [build EXCEPT !.pc = "build", !.heap = r.heap, !.formatted = r.id,
                               !.rounds = @ + 1, !.attempts = 0]
  /\ UNCHANGED <<calls, streamingContentRef, reasoningContentRef, streamCompletedRef,
                 isProcessing, messages, toasts, send, currentModel>>

\* one attempt of the provider loop builds and sends its request body
\*                                             openrouter.ts 47-92, 109-155
BuildRequest ==
  /\ build.pc = "build"
  /\ LET r == cachedMessages(build.heap, build.formatted)
     IN build' = [build EXCEPT !.pc = "sent", !.heap = r.heap,
                               !.wire = Stringify(r.heap, r.id), !.attempts = @ + 1]
  /\ UNCHANGED <<calls, streamingContentRef, reasoningContentRef, streamCompletedRef,
                 isProcessing, messages, toasts, send, currentModel>>

\* the attempt fails: the provider loop tries again; when it gives up,
\* xaiService.sendMessage starts another round, streamResponse has reported
\* the error and returns           openrouter.ts 96-100, 191-194, api.ts 237-252
AttemptFails ==
  /\ build.pc = "sent"
  /\ build' = IF build.attempts <= MAX_RETRIES THEN [build EXCEPT !.pc = "build"]
              ELSE IF build.entry = "sendMessage" /\ build.rounds <= MAX_RETRIES
                THEN [build EXCEPT !.pc = "format"]
              ELSE [build EXCEPT !.pc = "done"]
  /\ UNCHANGED <<calls, streamingContentRef, reasoningContentRef, streamCompletedRef,
                 isProcessing, messages, toasts, send, currentModel>>

\* the attempt succeeds
AttemptSucceeds ==
  /\ build.pc = "sent"
  /\ build' = [build EXCEPT !.pc = "done"]
  /\ UNCHANGED <<calls, streamingContentRef, reasoningContentRef, streamCompletedRef,
                 isProcessing, messages, toasts, send, currentModel>>

BuilderNext ==
  \/ \E e \in {"streamResponse", "sendMessage"}, conv \in Conversations : CallService(e, conv)
  \/ \E hist \in Histories, p \in BOOLEAN, f \in BOOLEAN, v \in BOOLEAN :
       ChatUiCall(hist, p, f, v)
  \/ Format
  \/ BuildRequest
  \/ AttemptFails
  \/ AttemptSucceeds

BuilderSpec == Init /\ [][BuilderNext]_vars

\* ----------------------------------------------------------------- claims
\* how often call c has invoked callback cb
Count(c, cb) ==
  Cardinality({i \in 1..Len(calls[c].events) : calls[c].events[i].cb = cb})

\* the concatenated arguments of the cb events of attempt att in evs
RECURSIVE ArgsOf(_, _, _)
ArgsOf(evs, cb, att) ==
  IF evs = <<>> THEN <<>>
  ELSE (IF Head(evs).cb = cb /\ Head(evs).att = att THEN Head(evs).arg ELSE <<>>)
       \o ArgsOf(Tail(evs), cb, att)

\* C1: over one logical streamResponse call, onComplete and onError are
\* together invoked at most once, whatever the network does.
C1_AtMostOneTerminal ==
  \A c \in Calls : Count(c, "onComplete") + Count(c, "onError") <= 1

\* C3: when every attempt of a call was answered with a status >= 500, the
\* finished call has issued exactly 3 requests, has waited a longer delay
\* before the second retry than before the first, and has invoked onError
\* exactly once and onComplete never.
AllServerErrors(c) ==
  /\ calls[c].outcomes # <<>>
  /\ \A i \in 1..Len(calls[c].outcomes) : calls[c].outcomes[i] >= 500

C3_ServerErrorsExhaustRetries ==
  \A c \in Calls :
    (calls[c].pc = "done" /\ AllServerErrors(c)) =>
      /\ calls[c].reqs = MAX_RETRIES + 1
      /\ Len(calls[c].delays) = 2
      /\ calls[c].delays[2] > calls[c].delays[1]
      /\ Count(c, "onError") = 1
      /\ Count(c, "onComplete") = 0

C3_Witness ==
  \E c \in Calls :
    /\ calls[c].pc = "done"
    /\ calls[c].outcomes = <<500, 500, 500>>
    /\ Count(c, "onError") = 1

\* C4: when the first attempt of a call is answered with HTTP 401, no backoff
\* delay is waited and no second request is issued for that call.
C4_AuthErrorNotRetried ==
  \A c \in Calls :
    (calls[c].outcomes # <<>> /\ calls[c].outcomes[1] = 401) =>
      /\ calls[c].reqs = 1
      /\ calls[c].delays = <<>>

\* C6: once the aborted flag has been set while the response body is being
\* read, the call invokes no further callback, even when the pending read
\* resolves with more bytes.
C6_NoCallbackAfterAbort ==
  [][\A c \in Calls :
       (calls[c].pc = "read" /\ calls[c].aborted) =>
         calls'[c].events = calls[c].events]_vars

\* C7: the content of a final assistant message is the concatenation of the
\* chunks of the attempt that completed, and of no other attempt.
C7_FinalContentOfCompletingAttempt ==
  \A i \in 1..Len(messages) :
    messages[i].content =
      ArgsOf(calls[messages[i].call].events, "onChunk", messages[i].att)

\* what the decoder makes of the first n characters of the body of call c
\* when they arrive as one network chunk
Unsplit(c, n) == ProcessValue(<<>>, SubSeq(Body(calls[c]), 1, n), calls[c].reqs)

\* C9: for any split of an SSE transcript into network chunks, the decoder
\* invokes the same callbacks, in the same order and with the same arguments,
\* as for the unsplit transcript; this holds of every prefix delivered so far.
C9_SplitInvariance ==
  \A c \in Calls :
    LET r == calls[c]
        sofar == Unsplit(c, r.pos)
        whole == Unsplit(c, Len(Body(r)))
    IN /\ r.pc = "read" =>
            /\ r.events = sofar.evs
            /\ r.buffer = sofar.buffer
       /\ r.pc = "done" =>
            r.events = IF whole.returned THEN whole.evs
                       ELSE Append(whole.evs, Ev("onComplete", <<>>, r.reqs))

\* a network chunk has ended inside the 'data: ' prefix of a later line, and
\* the call went on to complete
C9_Witness ==
  \E c \in Calls :
    /\ calls[c].pc = "read"
    /\ calls[c].buffer = <<"d", "a", "t">>
    /\ Count(c, "onChunk") >= 1
    /\ calls[c].script = <<"A", "B", "Done">>

\* the callbacks a well-behaved decoder makes for a sequence of frames
KindEvents(k, att) ==
  CASE k = "A" -> <<Ev("onChunk", <<"a">>, att)>>
    [] k = "B" -> <<Ev("onChunk", <<"b">>, att)>>
    [] k = "R" -> <<Ev("onReasoningChunk", <<"r">>, att)>>
    [] k = "RC" -> <<Ev("onReasoningChunk", <<"r">>, att), Ev("onChunk", <<"a">>, att)>>
    [] k = "Done" -> <<Ev("onComplete", <<>>, att)>>
    [] OTHER -> <<>>

RECURSIVE ScriptEvents(_, _)
ScriptEvents(ks, att) ==
  IF ks = <<>> THEN <<>>
  ELSE IF Head(ks) = "Done" THEN KindEvents("Done", att)
  ELSE KindEvents(Head(ks), att) \o ScriptEvents(Tail(ks), att)

\* the frames of the body of call c that have been delivered in full
FramesDelivered(c) ==
  LET r == calls[c]
      full == {j \in 0..Len(r.script) : Len(Flatten(SubSeq(r.script, 1, j))) <= r.pos}
  IN SubSeq(r.script, 1, CHOOSE j \in full : \A j2 \in full : j2 <= j)

HasDone(ks) == \E i \in 1..Len(ks) : ks[i] = "Done"

\* C10: a data line whose payload fails JSON parsing is dropped without
\* ending the stream: the callbacks made so far are those of the valid frames
\* delivered so far, in order; the call ends only at [DONE] or at the end of
\* the body; no onError is invoked and no retry attempt is started.
C10_MalformedFrameDropped ==
  \A c \in Calls :
    LET r == calls[c]
        want == ScriptEvents(FramesDelivered(c), r.reqs)
    IN /\ r.pc = "read" => r.events = want
       /\ r.pc = "done" =>
            /\ r.events = IF HasDone(FramesDelivered(c)) THEN want
                          ELSE Append(want, Ev("onComplete", <<>>, r.reqs))
            /\ HasDone(FramesDelivered(c)) \/ r.pos = Len(Body(r))
       /\ Count(c, "onError") = 0
       /\ r.retries = 0
       /\ r.reqs <= 1

C10_Witness ==
  \E c \in Calls :
    /\ calls[c].pc = "done"
    /\ calls[c].script = <<"A", "Bad", "B">>
    /\ calls[c].events = <<Ev("onChunk", <<"a">>, 1), Ev("onChunk", <<"b">>, 1),
                           Ev("onComplete", <<>>, 1)>>

\* how often call c has invoked onError with a plugin-incompatibility message
PluginErrors(c) ==
  Cardinality({i \in 1..Len(calls[c].events) :
                 /\ calls[c].events[i].cb = "onError"
                 /\ IncludesPlugin(calls[c].events[i].arg[1])})

ToastCount(title, c) ==
  Cardinality({i \in 1..Len(toasts) : toasts[i] = Toast(title, c)})

\* C8: a call with web search active that fails with a plugin-incompatibility
\* message starts exactly one resubmission, and that one without web search;
\* every failure of the resubmission, also one that carries the marker again,
\* is reported to the user, and no further resubmission is started.
C8_OneDowngradedResubmission ==
  /\ calls[2].pc # "idle" <=> (calls[1].webSearchActive /\ PluginErrors(1) >= 1)
  /\ PluginErrors(1) <= 1
  /\ ~calls[2].webSearchActive
  /\ ToastCount("Error", 2) = Count(2, "onError")
  /\ ToastCount("Web Search Not Available", 1) = (IF calls[2].pc # "idle" THEN 1 ELSE 0)
  /\ \A c \in Calls : c >= 3 => calls[c].pc = "idle"

C8_Witness ==
  /\ calls[1].webSearchActive
  /\ PluginErrors(1) = 1
  /\ calls[2].pc = "done"
  /\ PluginErrors(2) = 1
  /\ ToastCount("Error", 2) = 1

\* a body of well-formed data frames closed by a single [DONE] line
WellFormedThenDone(ks) ==
  /\ ks # <<>>
  /\ ks[Len(ks)] = "Done"
  /\ \A i \in 1..(Len(ks) - 1) : ks[i] \in WellKinds \ {"Done"}

\* the frames of ks that carry a non-empty delta.content
RECURSIVE ContentFrames(_)
ContentFrames(ks) ==
  IF ks = <<>> THEN <<>>
  ELSE (IF Head(ks) \in {"A", "B", "RC"} THEN <<Head(ks)>> ELSE <<>>)
       \o ContentFrames(Tail(ks))

StreamCallbacks == {"onChunk", "onReasoningChunk", "onComplete"}

\* C12: once a call has invoked onComplete, for a [DONE] line or otherwise,
\* it invokes no onChunk, no onReasoningChunk and no second onComplete: the
\* onComplete is the last of these callbacks in the step that made it, also
\* when data lines follow [DONE] in the same network chunk, and no later step
\* adds one, also when the body has bytes left.
C12_NothingAfterComplete ==
  [][\A c \in Calls :
       LET old == calls[c].events
           new == calls'[c].events
           stream == {i \in 1..Len(new) : new[i].cb \in StreamCallbacks}
       IN /\ \A i \in stream : new[i].cb = "onComplete" => \A j \in stream : j <= i
          /\ Count(c, "onComplete") >= 1 =>
               \A i \in (Len(old) + 1)..Len(new) : new[i].cb \notin StreamCallbacks]_vars

\* one network chunk has carried [DONE] and a data line after it
C12_Witness ==
  \E c \in Calls :
    /\ calls[c].pc = "done"
    /\ calls[c].script = <<"Done", "A">>
    /\ calls[c].pos = Len(Body(calls[c]))
    /\ calls[c].events = <<Ev("onComplete", <<>>, 1)>>

C14_NoInterleavedContent ==
  \A i \in 1..Len(messages) :
    \A j, k \in 1..Len(messages[i].content) :
      messages[i].content[j] = messages[i].content[k]

\* how many system-role messages a conversation has
SystemCount(conv) == Cardinality({i \in 1..Len(conv) : conv[i].role = "system"})

\* the conversation the caller handed in, as it was when the call was made
InputValue == Stringify(build.before, build.input)

\* how many file-context system messages a conversation has
FileContextCount(conv) ==
  Cardinality({i \in 1..Len(conv) : conv[i].role = "system" /\ conv[i].str = <<"files">>})

\* C15: the messages of every wire request contain exactly one system-role
\* message when the conversation handed in contains none, and as many as the
\* conversation handed in when it contains some; for a call from the chat
\* context that is one or two system messages, of which at most one is the
\* file-context message, and two only with a file-context message.
C15_SystemMessageCount ==
  build.wire # <<>> =>
    /\ SystemCount(build.wire) =
         (IF SystemCount(InputValue) = 0 THEN 1 ELSE SystemCount(InputValue))
    /\ Len(build.wire) = Len(InputValue) + (IF SystemCount(InputValue) = 0 THEN 1 ELSE 0)
    /\ build.entry = "chat" =>
         /\ SystemCount(build.wire) \in {1, 2}
         /\ FileContextCount(build.wire) <= 1
         /\ SystemCount(build.wire) = 2 => FileContextCount(build.wire) = 1

\* a conversation without a system message has gone out with one, and on a
\* retry
C15_Witness ==
  /\ build.entry = "streamResponse"
  /\ build.attempts = 2
  /\ InputValue = <<StrMsg("user", <<"t">>), StrMsg("assistant", <<"t">>)>>
  /\ build.wire = <<StrMsg("system", GenericSystem)>> \o InputValue

\* C16: at every point of a sendMessage or streamResponse call, the objects
\* the caller handed in (the messages array, its message objects, their
\* content arrays and content parts) are equal to what they were when the
\* call was made.
C16_InputNotModified ==
  SubSeq(build.heap, 1, Len(build.before)) = build.before

\* a second round of sendMessage has sent a request in which the system
\* message carries the formatting instructions and the last long text part
\* of the user message carries the cache marker
C16_Witness ==
  /\ build.entry = "sendMessage"
  /\ build.rounds = 2
  /\ build.pc = "sent"
  /\ InputValue = <<StrMsg("system", <<"t">>),
                    ArrMsg("user", <<PartVal("text", LongText), PartVal("text", LongText),
                                     PartVal("image_url", <<>>)>>)>>
  /\ build.wire[1].str = <<"t", " ">> \o FormattingText
  /\ build.wire[2].parts[2].cache
  /\ ~build.wire[2].parts[1].cache

\* how often a model id carries the ':online' tag
TagCount(model) == Cardinality({i \in 1..Len(model) : model[i] = OnlineTag})

\* C17 as stated: applying ensureOnlineSlug twice to the configured model id
\* yields the same id as applying it once, and the result never carries the
\* ':online' tag more than once.
C17_IdempotentAtMostOneTag ==
  LET once == ensureOnlineSlug(currentModel)
  IN /\ ensureOnlineSlug(once) = once
     /\ TagCount(once) <= 1

\* C17, amended: applying ensureOnlineSlug twice to the configured model id
\* yields the same id as applying it once; the result carries the ':online'
\* tag, exactly once when the id given carries it at most once, and only as
\* often as the id given otherwise; the model id of a call with web search and
\* without images is that result.
C17_IdempotentNoSecondTag ==
  LET once == ensureOnlineSlug(currentModel)
  IN /\ ensureOnlineSlug(once) = once
     /\ TagCount(once) >= 1
     /\ TagCount(currentModel) <= 1 => TagCount(once) = 1
     /\ TagCount(currentModel) >= 1 => once = currentModel
     /\ \A c \in Calls :
          (calls[c].reqs >= 1 /\ calls[c].webSearchActive /\ ~calls[c].images) =>
            RequestBody(calls[c].options)["model"] = once

\* a request has gone out for a model id with another tag and web search on
C17_Witness ==
  /\ currentModel = DefaultModel \o <<":free">>
  /\ calls[1].reqs >= 1
  /\ calls[1].webSearchActive
  /\ RequestBody(calls[1].options)["model"] = DefaultModel \o <<":free", OnlineTag>>

\* C18: the body of every request contains a plugins field exactly when web
\* search is active and no image is attached; with images and web search the
\* request names the vision model, without ':online' tag, and has no plugins
\* field.
C18_PluginsIffSearchApplied ==
  \A c \in Calls :
    calls[c].reqs >= 1 =>
      LET body == RequestBody(calls[c].options)
          applied == calls[c].webSearchActive /\ ~calls[c].images
      IN /\ ("plugins" \in DOMAIN body) <=> applied
         /\ (calls[c].webSearchActive /\ calls[c].images) =>
              /\ body["model"] = getVisionModel(currentModel)
              /\ ~Includes(body["model"], OnlineTag)

\* C19: when a call with web search is followed by its downgraded
\* resubmission, the call has sent its request exactly once and has waited no
\* backoff delay.
C19_CapabilityRequestSentOnce ==
  \A c \in Calls :
    (c < MaxCalls /\ calls[c].webSearchActive /\ calls[c + 1].pc # "idle") =>
      /\ calls[c].reqs = 1
      /\ calls[c].retries = 0
      /\ calls[c].delays = <<>>

\* C20: the request of a downgraded resubmission has no plugins field and a
\* model id without the ':online' tag, whatever model id is configured.
C20_DowngradedRequestPlain ==
  \A c \in Calls :
    (c < MaxCalls /\ calls[c].webSearchActive /\ calls[c + 1].reqs >= 1) =>
      LET body == RequestBody(calls[c + 1].options)
      IN /\ "plugins" \notin DOMAIN body
         /\ ~calls[c + 1].options.plugins
         /\ ~Includes(body["model"], OnlineTag)

\* has call c reported the 30-second timeout to its caller?
TimeoutReported(c) ==
  \E i \in 1..Len(calls[c].events) :
    /\ calls[c].events[i].cb = "onError"
    /\ calls[c].events[i].arg = <<MsgTimeout>>

\* C21: a timeout counts against the retry budget like a network error: the
\* timeout is reported to the caller only when both retries have been used,
\* and a call that has ended after a timeout has used both retries and has
\* issued 3 requests.
C21_TimeoutConsumesRetry ==
  \A c \in Calls :
    /\ TimeoutReported(c) => calls[c].retries = MAX_RETRIES
    /\ (calls[c].pc = "done" /\ calls[c].aborted) =>
         /\ calls[c].retries = MAX_RETRIES
         /\ calls[c].reqs = MAX_RETRIES + 1

\* C22: in sendMessage, once a 2xx response whose body is not JSON, or has no
\* choices[0].message, has been received, the call has failed: it has
\* rejected after exactly one HTTP request and without waiting a delay.
C22_MalformedResponseNotRetried ==
  (send.entry = "sendMessage" /\ send.lastError \in {MsgJson, MsgChoices}) =>
    /\ send.pc = "rejected"
    /\ send.reqs = 1
    /\ send.delays = <<>>

\* can a callback of call c still be invoked: is a request, a body read or a
\* backoff delay of it pending, or a timer of it armed?
CanCallBack(c) ==
  calls[c].pc \in {"fetch", "read", "delay"} \/ calls[c].timers # {}

\* C23: the already-completed latch is write-once: no step sets it from true
\* back to false while a callback of a call started before that step can
\* still be invoked.
C23_LatchWriteOnce ==
  [][(streamCompletedRef /\ ~streamCompletedRef') =>
       \A c \in Calls : ~CanCallBack(c)]_vars

\* the texts of the content of a message: of its parts, or of its string
ContentText(m) ==
  IF m.isArr THEN [j \in 1..Len(m.parts) |-> m.parts[j].str] ELSE <<m.str>>

\* C24: when the conversation handed in contains a system-role message, the
\* wire request has the same messages in the same order, and every system
\* message of it carries the text the caller provided, nothing appended and
\* nothing rewritten.
C24_SystemMessageVerbatim ==
  (build.wire # <<>> /\ SystemCount(InputValue) > 0) =>
    /\ Len(build.wire) = Len(InputValue)
    /\ \A i \in 1..Len(InputValue) :
         InputValue[i].role = "system" =>
           /\ build.wire[i].role = "system"
           /\ ContentText(build.wire[i]) = ContentText(InputValue[i])

\* the conversation after formatting, which the provider maps to the wire
FormattedValue == Stringify(build.heap, build.formatted)

\* the parts of a wire message that carry the cache marker, and its text
\* parts longer than the threshold
Marked(m) == {j \in 1..Len(m.parts) : m.parts[j].cache}
Qualifying(m) ==
  {j \in 1..Len(m.parts) :
     m.parts[j].type = "text" /\ StrLen(m.parts[j].str) > CACHE_THRESHOLD}

\* C25: in every wire request, a message whose content was a string longer
\* than 4000 characters is a single text part with that string and the cache
\* marker; a message with array content has the same parts as before, of
\* which exactly the last text part longer than 4000 characters carries the
\* marker; every other message is sent as it is and carries no marker.  A
\* string of exactly 4000 characters and an array without a text part longer
\* than 4000 characters are not marked.
C25_OneMarkerOnLastQualifyingPart ==
  build.wire # <<>> =>
    /\ Len(build.wire) = Len(FormattedValue)
    /\ \A i \in 1..Len(build.wire) :
         LET m == build.wire[i]
             f == FormattedValue[i]
         IN /\ m.role = f.role
            /\ Cardinality(Marked(m)) <= 1
            /\ ~m.isArr => m = f /\ StrLen(m.str) <= CACHE_THRESHOLD
            /\ (m.isArr /\ ~f.isArr) =>
                 /\ StrLen(f.str) > CACHE_THRESHOLD
                 /\ m.parts = <<[type |-> "text", str |-> f.str, cache |-> TRUE]>>
            /\ (m.isArr /\ f.isArr) =>
                 /\ Len(m.parts) = Len(f.parts)
                 /\ \A j \in 1..Len(m.parts) :
                      /\ m.parts[j].type = f.parts[j].type
                      /\ m.parts[j].str = f.parts[j].str
                      /\ m.parts[j].cache <=>
                           (j \in Qualifying(m) /\ \A k \in Qualifying(m) : k <= j)
            /\ f.isArr => m.isArr

\* a request has gone out with a long string turned into one marked part, an
\* array whose first part is the last long text part, and an array without a
\* text part above the threshold
C25_Witness ==
  /\ build.pc = "sent"
  /\ Len(build.wire) = 3
  /\ build.wire[2] \in
       {ArrMsg("user", <<[type |-> "text", str |-> LongText, cache |-> TRUE]>>),
        ArrMsg("user", <<[type |-> "text", str |-> <<"L">>, cache |-> FALSE],
                         [type |-> "text", str |-> <<"t">>, cache |-> FALSE]>>)}
  /\ build.wire[3].isArr
  /\ Len(build.wire[3].parts) = 3
  /\ Marked(build.wire[3]) = {1}
  /\ Qualifying(build.wire[3]) = {1}

\* the requests of call c whose fetch has not settled yet
InFlight(c) == calls[c].reqs - Len(calls[c].outcomes)

\* C26: at most one HTTP attempt is active per logical call: at most one
\* request of a call is in flight, and one is exactly while the call awaits
\* fetch; a step issues at most one request, and only when the call neither
\* awaits a fetch nor reads a body, the fetch of every earlier attempt has
\* settled and a backoff delay has been waited after every earlier attempt.
\* The same holds of the requests of sendMessage and callAI.
C26_AttemptsSequential ==
  /\ [](/\ \A c \in Calls :
             /\ InFlight(c) \in {0, 1}
             /\ InFlight(c) = 1 <=> calls[c].pc = "fetch"
             /\ calls[c].pc = "delay" => Len(calls[c].delays) = calls[c].reqs
        /\ send.pc = "fetch" => Len(send.delays) = send.reqs - 1
        /\ send.pc \in {"provDelay", "delay"} => Len(send.delays) = send.reqs)
  /\ [][/\ \A c \in Calls :
             calls'[c].reqs # calls[c].reqs =>
               /\ calls'[c].reqs = calls[c].reqs + 1
               /\ calls[c].pc \in {"idle", "delay"}
               /\ Len(calls[c].outcomes) = calls[c].reqs
               /\ Len(calls[c].delays) = calls[c].reqs
               /\ calls'[c].pc = "fetch"
        /\ send'.reqs # send.reqs =>
             /\ send'.reqs = send.reqs + 1
             /\ send.pc \in {"idle", "provDelay", "delay"}
             /\ Len(send.delays) = send.reqs
             /\ send'.pc = "fetch"]_vars

\* a streaming call has issued its third request after two failed attempts
\* and two backoff delays, with the timer of the first attempt still armed
C26_Witness ==
  \E c \in Calls :
    /\ calls[c].pc = "fetch"
    /\ calls[c].reqs = 3
    /\ calls[c].outcomes = <<NoResponse, 500>>
    /\ Len(calls[c].delays) = 2
    /\ 1 \in calls[c].timers

\* C27: no delay is waited before the first attempt of a call, and the delay
\* waited before retry number k (k = 1, 2) is k times 1000 ms: a streaming
\* call waits 1000 ms and then 2000 ms and nothing else, one delay per retry;
\* the first two delays of a buffered call are 1000 ms and 2000 ms, and every
\* delay of the provider loop is 1000 ms times the number of the retry it
\* precedes.
C27_LinearBackoff ==
  /\ \A c \in Calls :
       LET r == calls[c]
       IN /\ Len(r.delays) = r.retries
          /\ r.retries <= MAX_RETRIES
          /\ \A k \in 1..Len(r.delays) : r.delays[k] = k * RETRY_DELAY
          /\ r.reqs = 0 => r.delays = <<>>
          /\ (r.reqs = 1 /\ r.pc \in {"fetch", "read"}) => r.delays = <<>>
  /\ \A k \in 1..Len(send.delays) :
       k <= MAX_RETRIES => send.delays[k] = k * RETRY_DELAY
  /\ send.reqs = 0 => send.delays = <<>>
  /\ (send.reqs = 1 /\ send.pc = "fetch") => send.delays = <<>>
  /\ send.pc = "provDelay" =>
       /\ send.provRetries \in 1..MAX_RETRIES
       /\ send.delays[Len(send.delays)] = send.provRetries * RETRY_DELAY

\* a buffered call has waited 1000 ms and 2000 ms and has issued its third
\* request
C27_Witness ==
  /\ send.entry = "sendMessage"
  /\ send.pc = "fetch"
  /\ send.reqs = 3
  /\ send.delays = <<RETRY_DELAY, 2 * RETRY_DELAY>>

\* C28: a timeout timer is armed only while the fetch of the attempt it was
\* armed for is pending: when the attempt has ended, by headers, by an error
\* status or by the fetch rejecting, its timer has been cleared or has fired,
\* so no timer of an earlier attempt is armed during or after a later one.
C28_NoTimerOutlivesAttempt ==
  \A c \in Calls :
    \A k \in calls[c].timers :
      /\ k = calls[c].reqs
      /\ calls[c].pc = "fetch"

\* C29: every step that starts a logical streaming call, by handleSendMessage
\* or by regenerateMessage, leaves the answer accumulator and the reasoning
\* accumulator empty, and the reasoning stored with a final assistant message
\* is the concatenation of the reasoning chunks of the call that produced it.
C29_AccumulatorsFreshPerCall ==
  /\ [][\A c \in Calls :
          (calls[c].pc = "idle" /\ calls'[c].pc # "idle") =>
            /\ streamingContentRef' = <<>>
            /\ reasoningContentRef' = <<>>]_vars
  /\ [](\A i \in 1..Len(messages) :
          messages[i].reasoning =
            ArgsOf(calls[messages[i].call].events, "onReasoningChunk", messages[i].att))

\* the keys that fail validation: the empty key and keys shorter than 10
\* characters after trimming
BadKeys == {key \in Keys : ~prepareApiKey(key)}

\* the one callback of a streaming call refused for its key
KeyError == Ev("onError", <<MsgKey>>, 0)

\* C30: xaiService.streamResponse called with an empty or too short key
\* invokes onError exactly once and nothing else, issues no request, arms no
\* timer and is over, also in every later state; xaiService.sendMessage and
\* callAI with such a key end without a request and without a delay,
\* sendMessage by rejecting.
C30_BadKeyNoRequest ==
  /\ [][\A key \in BadKeys :
          /\ (CallStreamResponse(key) \/ (key # "empty" /\ HandleSendMessage(FALSE, FALSE, key))) =>
               /\ calls'[1].events = <<KeyError>>
               /\ calls'[1].pc = "done"
          /\ \A e \in {"sendMessage", "callAI"} :
               SendMessage(e, key) =>
                 /\ send'.reqs = 0
                 /\ send'.delays = <<>>
                 /\ send'.pc \in {"rejected", "resolved"}
                 /\ e = "sendMessage" => send'.pc = "rejected"]_vars
  /\ [](/\ \A key \in BadKeys :
             LET r == StreamResponse(IdleCall, key)
             IN r.events = <<KeyError>> /\ r.reqs = 0 /\ r.pc = "done"
        /\ \A c \in Calls :
             (calls[c].events # <<>> /\ calls[c].events[1] = KeyError) =>
               /\ calls[c].events = <<KeyError>>
               /\ calls[c].reqs = 0
               /\ calls[c].timers = {}
               /\ calls[c].pc = "done"
        /\ (send.pc \in {"rejected", "resolved"} /\ send.reqs = 0) => send.delays = <<>>)

\* a caller has handed a key that fails validation to streamResponse, and
\* onError has been invoked once, with no request issued
C30_Witness ==
  /\ calls[1].events = <<KeyError>>
  /\ calls[1].reqs = 0
  /\ calls[1].pc = "done"
  /\ toasts = <<>>

\* C5: no logical call made through xaiService issues more than 3 HTTP
\* requests, whatever responses fail.
C5_AtMostThreeRequests ==
  /\ send.reqs <= MAX_RETRIES + 1
  /\ \A c \in Calls : calls[c].reqs <= MAX_RETRIES + 1

\* C2: every logical streamResponse call that is under way eventually
\* invokes onComplete or onError, whatever the server does.
C2_EventuallyTerminal ==
  \A c \in Calls :
    (calls[c].pc \in {"fetch", "read", "delay"})
      ~> (Count(c, "onComplete") + Count(c, "onError") >= 1)

====
